---- MODULE Spec2Model ----
(***************************************************************************)
(* The OPML-driven RSS poller of ai_assistant/commands/opml.py:            *)
(*   fetch_opml   the Feed List Loader,                                     *)
(*   fetch_rss    the Bounded Concurrent Fetcher (one task per URL),        *)
(*   fetch_all_rss / async_fetch   the Fetch Round Driver.                  *)
(* Python values are tagged records so that None, str, dict and list can    *)
(* be told apart the way isinstance and subscripting tell them apart.       *)
(***************************************************************************)
EXTENDS Integers, Sequences, FiniteSets, TLC

(* ---------------------------- bounds ----------------------------------- *)
\* Loader inputs: at most MaxGroups top-level entries, MaxChildren per group.
MaxGroups == 2
MaxChildren == 2
\* Driver inputs: feed lists of at most MaxUrls entries, caps 1..MaxCap,
\* and at most MaxRounds rounds of a looping run are followed.
MaxUrls == 2
MaxCap == 2
MaxRounds == 2
\* Watcher inputs, in clock ticks: the watch is followed for MaxTime ticks,
\* debounce is 0..MaxDebounce ticks and run_cmd takes 0..MaxCmd ticks.
MaxTime == 3
MaxDebounce == 2
MaxCmd == 1

(* ------------------------- Python values ------------------------------- *)
PyNone == [t |-> "None"]
PyStr(s) == [t |-> "str", v |-> s]
PyDict(f) == [t |-> "dict", v |-> f]
PyList(s) == [t |-> "list", v |-> s]

\* The result of evaluating an expression: a value, or a raised exception.
Ok(x) == [ok |-> TRUE, val |-> x]
Raise(e) == [ok |-> FALSE, exc |-> e]

\* x[k] with a string key k: KeyError on a dict without the key; None, str
\* and list are not subscriptable by a string and raise TypeError.
GetItem(x, k) ==
  IF x.t = "dict"
    THEN IF k \in DOMAIN x.v THEN Ok(x.v[k]) ELSE Raise("KeyError")
    ELSE Raise("TypeError")

\* The items a for-loop over x visits: the elements of a list, the keys of
\* a dict (strings), the characters of a str (strings; xmltodict never
\* yields an empty str); None is not iterable.
RECURSIVE SetToSeq(_)
SetToSeq(S) ==
  IF S = {} THEN <<>>
  ELSE LET k == CHOOSE k \in S : TRUE IN <<k>> \o SetToSeq(S \ {k})

Iterate(x) ==
  IF x.t = "list" THEN Ok(x.v)
  ELSE IF x.t = "dict"
    THEN Ok([i \in 1..Cardinality(DOMAIN x.v) |-> PyStr(SetToSeq(DOMAIN x.v)[i])])
  ELSE IF x.t = "str" THEN Ok(<<PyStr(x.v)>>)
  ELSE Raise("TypeError")

(* ------------------------ the OPML document ---------------------------- *)
\* An XML element: tag, attributes (a set of <<name, value>>), child
\* elements in document order, and text ("" when there is none).
Elem(tag, attrs, kids, text) ==
  [tag |-> tag, attrs |-> attrs, kids |-> kids, text |-> text]

AttrKey(a) == CASE a = "xmlUrl" -> "@xmlUrl"
                [] a = "text" -> "@text"
                [] a = "version" -> "@version"

AttrNames(e) == {p[1] : p \in e.attrs}
AttrValue(e, a) == (CHOOSE p \in e.attrs : p[1] = a)[2]
KidTags(e) == {e.kids[i].tag : i \in DOMAIN e.kids}
KidsTagged(e, tag) == SelectSeq(e.kids, LAMBDA k : k.tag = tag)

\* xmltodict's conversion of one element: an element with no attribute and
\* no child is its text, or None when it has none; otherwise a dict with
\* one "@name" key per attribute, one key per child tag (the child's value
\* when the tag occurs once, the list of the values when it repeats) and
\* "#text" for its text.
RECURSIVE ParseElem(_)
ParseElem(e) ==
  IF e.attrs = {} /\ e.kids = <<>>
    THEN IF e.text = "" THEN PyNone ELSE PyStr(e.text)
    ELSE PyDict(
      [k \in {AttrKey(a) : a \in AttrNames(e)} \cup KidTags(e)
              \cup (IF e.text = "" THEN {} ELSE {"#text"}) |->
        IF k = "#text" THEN PyStr(e.text)
        ELSE IF k \in KidTags(e)
          THEN LET same == KidsTagged(e, k) IN
               IF Len(same) = 1 THEN ParseElem(same[1])
               ELSE PyList([i \in 1..Len(same) |-> ParseElem(same[i])])
          ELSE PyStr(AttrValue(e, CHOOSE a \in AttrNames(e) : AttrKey(a) = k))])

\* parse(data): the document is a dict with the root's tag as its only key.
parse(root) == PyDict([k \in {root.tag} |-> ParseElem(root)])

(* --------------------------- fetch_opml -------------------------------- *)
\* The loop state of fetch_opml: urllist and the number of logger.error calls.
Acc(urls, errors) == [urllist |-> urls, errors |-> errors]

\* for item in line["outline"]: url = item["@xmlUrl"]; urllist.append(url)
RECURSIVE AppendItems(_, _, _)
AppendItems(items, i, acc) ==
  IF i > Len(items) THEN Ok(acc)
  ELSE LET url == GetItem(items[i], "@xmlUrl") IN
       IF ~url.ok THEN url
       ELSE AppendItems(items, i + 1,
                        Acc(Append(acc.urllist, url.val.v), acc.errors))

\* Variant: the single-child case tests for a list again.
IsListChild(x) == x.t = "list"

\* elif isinstance(line["outline"], dict)
IsSingleChild(x) == x.t = "dict"

\* One iteration of `for line in outline`.
GroupStep(line, acc) ==
  LET sub == GetItem(line, "outline") IN
  IF ~sub.ok THEN sub
  ELSE IF sub.val.t = "list" THEN AppendItems(sub.val.v, 1, acc)
  ELSE IF IsSingleChild(sub.val)
    THEN LET url == GetItem(sub.val, "@xmlUrl") IN
         IF ~url.ok THEN url
         ELSE Ok(Acc(Append(acc.urllist, url.val.v), acc.errors))
  ELSE Ok(Acc(acc.urllist, acc.errors + 1))

RECURSIVE LoopLines(_, _, _)
LoopLines(lines, i, acc) ==
  IF i > Len(lines) THEN Ok(acc)
  ELSE LET r == GroupStep(lines[i], acc) IN
       IF ~r.ok THEN r ELSE LoopLines(lines, i + 1, r.val)

\* The body of the try block.
OpmlTry(body) ==
  LET o == GetItem(body, "opml") IN
  IF ~o.ok THEN o ELSE
  LET b == GetItem(o.val, "body") IN
  IF ~b.ok THEN b ELSE
  LET outline == GetItem(b.val, "outline") IN
  IF ~outline.ok THEN outline ELSE
  LET lines == Iterate(outline.val) IN
  IF ~lines.ok THEN lines ELSE LoopLines(lines.val, 1, Acc(<<>>, 0))

\* except KeyError: raise ValueError("OPML 文件格式错误")
ExceptKeyError(r) ==
  IF ~r.ok /\ r.exc = "KeyError" THEN Raise("ValueError") ELSE r

fetch_opml(root) == ExceptKeyError(OpmlTry(parse(root)))

(* ----------------------- subscription lists --------------------------- *)
\* The feed URL carried by child c of group g (c = 0: by the entry itself).
UrlTable == << <<"feed10", "feed11", "feed12", "feed13", "feed14">>,
               <<"feed20", "feed21", "feed22", "feed23", "feed24">>,
               <<"feed30", "feed31", "feed32", "feed33", "feed34">>,
               <<"feed40", "feed41", "feed42", "feed43", "feed44">> >>
Url(g, c) == UrlTable[g][c + 1]

\* The kinds of <outline> child of a group: a feed entry, an entry without
\* xmlUrl, an element with neither attribute nor content; and a text-only
\* element, which occurs as a group's lone child.
ChildKinds == {"feed", "nourl", "empty"}

Child(kind, g, c) ==
  CASE kind = "feed" ->
         Elem("outline", {<<"text", "title">>, <<"xmlUrl", Url(g, c)>>}, <<>>, "")
    [] kind = "nourl" -> Elem("outline", {<<"text", "title">>}, <<>>, "")
    [] kind = "empty" -> Elem("outline", {}, <<>>, "")
    [] kind = "text" -> Elem("outline", {}, <<>>, "note")

BoundedSeqs(S, n) == UNION {[1..k -> S] : k \in 0..n}

\* A top-level entry: a titled group holding a sequence of children or a
\* lone text-only child, an <outline/> with neither attribute nor child, or
\* a leaf feed entry placed directly under <body>.
GroupShapes ==
  {[attr |-> "text", kids |-> ks] : ks \in BoundedSeqs(ChildKinds, MaxChildren)}
  \cup {[attr |-> "text", kids |-> <<"text">>],
        [attr |-> "none", kids |-> <<>>],
        [attr |-> "leaf", kids |-> <<>>]}

Group(shape, g) ==
  Elem("outline",
       CASE shape.attr = "none" -> {}
         [] shape.attr = "text" -> {<<"text", "group">>}
         [] shape.attr = "leaf" -> {<<"text", "title">>, <<"xmlUrl", Url(g, 0)>>},
       [c \in 1..Len(shape.kids) |-> Child(shape.kids[c], g, c)],
       "")

HeadElem == Elem("head", {}, <<Elem("title", {}, <<>>, "feeds")>>, "")

\* <opml version="2.0"><head>..</head><body> groups </body></opml>
OpmlDoc(shapes) ==
  Elem("opml", {<<"version", "2.0">>},
       <<HeadElem, Elem("body", {}, [g \in 1..Len(shapes) |-> Group(shapes[g], g)], "")>>,
       "")

\* Documents lacking the top-level structure.
NoOpmlDoc == Elem("rss", {<<"version", "2.0">>}, <<>>, "")
EmptyOpmlDoc == Elem("opml", {}, <<>>, "")
NoBodyDoc == Elem("opml", {<<"version", "2.0">>}, <<HeadElem>>, "")
BareOpmlDoc == Elem("opml", {<<"version", "2.0">>}, <<>>, "")
EmptyBodyDoc == OpmlDoc(<<>>)
NoOutlineDoc ==
  Elem("opml", {<<"version", "2.0">>},
       <<HeadElem, Elem("body", {}, <<Elem("note", {}, <<>>, "none")>>, "")>>, "")
BrokenDocs ==
  {NoOpmlDoc, EmptyOpmlDoc, NoBodyDoc, BareOpmlDoc, EmptyBodyDoc, NoOutlineDoc}

Docs == {OpmlDoc(s) : s \in BoundedSeqs(GroupShapes, MaxGroups)} \cup BrokenDocs

\* A well-formed list of n feeds in two groups: the first group holds all
\* feeds but the last (no feed: a lone empty element), the second the last.
FeedDoc(n) ==
  OpmlDoc(<<[attr |-> "text",
             kids |-> IF n >= 2 THEN [c \in 1..(n - 1) |-> "feed"] ELSE <<"empty">>],
            [attr |-> "text",
             kids |-> IF n >= 1 THEN <<"feed">> ELSE <<"empty">>]>>)

DriverDocs == {FeedDoc(n) : n \in 0..MaxUrls} \cup {NoBodyDoc, EmptyBodyDoc}

(* ---------------------------- fetch_rss -------------------------------- *)
\* What client.get(url, timeout=60, follow_redirects=True) produces: an
\* exception (exc # ""), or a response with a status code and a body.
Failure(e) == [exc |-> e, status |-> 0, body |-> ""]
Reply(status, body) == [exc |-> "", status |-> status, body |-> body]
NoResp == Reply(0, "")

\* Bodies: not JSON; a JSON feed with title and home_page_url; one lacking
\* title; one lacking home_page_url; a JSON array.
Bodies == {"html", "full", "notitle", "nohome", "list"}

Responses ==
  {Failure(e) : e \in {"ConnectError", "ReadTimeout"}}
  \cup {Reply(st, "html") : st \in {401, 403, 404, 502, 530}}
  \cup {Reply(200, b) : b \in Bodies}
  \cup {Reply(201, "full"), Reply(502, "full")}

\* resp.json()
Json(body) ==
  CASE body = "full" ->
         Ok(PyDict([title |-> PyStr("t"), home_page_url |-> PyStr("h")]))
    [] body = "notitle" -> Ok(PyDict([home_page_url |-> PyStr("h")]))
    [] body = "nohome" -> Ok(PyDict([title |-> PyStr("t")]))
    [] body = "list" -> Ok(PyList(<<>>))
    [] OTHER -> Raise("JSONDecodeError")

\* wait_time: int = 3; fetch_all_rss never passes another value.
wait_time == 3

\* Variant: 530 is not treated as a tunnel failure.
IsBadGateway(status) == status = 502

IsTunnelOffline(status) == status \in {502, 530}
IsProtected(status) == status \in {403, 401}
\* Variant: only 200 counts as success.
IsOk(status) == status = 200

\* resp.raise_for_status() returns only for a 2xx status.
IsSuccess(status) == status >= 200 /\ status <= 299

\* What one call did: the sleeps it awaited, the records it logged (by
\* level), and the exception that left it ("" when it returned).
Outcome(sleeps, logs, e) == [sleeps |-> sleeps, logs |-> logs, exc |-> e]

\* The try block of fetch_rss, from the moment client.get completes.
RssTry(resp, w) ==
  IF resp.exc # "" THEN Outcome(<<>>, <<>>, resp.exc)
  ELSE IF IsTunnelOffline(resp.status) THEN Outcome(<<w * 2>>, <<"debug">>, "")
  ELSE IF IsProtected(resp.status) THEN Outcome(<<w * 2>>, <<"debug">>, "")
  ELSE IF ~IsSuccess(resp.status) THEN Outcome(<<>>, <<>>, "HTTPStatusError")
  ELSE LET data == Json(resp.body) IN
       IF ~data.ok THEN Outcome(<<w * 3>>, <<"warning">>, "")
       ELSE LET title == GetItem(data.val, "title") IN
            IF ~title.ok THEN Outcome(<<>>, <<>>, title.exc)
            ELSE LET homepage == GetItem(data.val, "home_page_url") IN
                 IF ~homepage.ok THEN Outcome(<<>>, <<>>, homepage.exc)
                 ELSE Outcome(<<w>>, <<"info">>, "")

\* Variant: only the request's own errors are caught (except httpx.HTTPError).
IsRequestError(e) == e \in {"ConnectError", "ReadTimeout", "HTTPStatusError"}

\* The classes `except Exception` catches: every exception the try block
\* can raise (cancellation and interrupts are BaseException only).
IsException(e) ==
  e \in {"ConnectError", "ReadTimeout", "HTTPStatusError", "KeyError",
         "TypeError", "JSONDecodeError"}

\* Variant: the handler logs and re-raises.
RssExceptReraise(r, w) ==
  IF r.exc # "" /\ IsException(r.exc)
    THEN Outcome(r.sleeps, r.logs \o <<"error">>, r.exc)
    ELSE r

\* except Exception as e: logging.error(...); await asyncio.sleep(wait_time * 3)
RssExcept(r, w) ==
  IF r.exc # "" /\ IsException(r.exc)
    THEN Outcome(r.sleeps \o <<w * 3>>, r.logs \o <<"error">>, "")
    ELSE r

fetch_rss(resp, w) == RssExcept(RssTry(resp, w), w)

(* ----------------------------- state ----------------------------------- *)
VARIABLES
  doc,             \* the OPML file at opml_path
  max_concurrent,  \* --max-concurrent
  loop,            \* --loop
  pc,              \* async_fetch: "start", "loop", "gather", "returned", "raised"
  exc,             \* the exception that left async_fetch ("" if none)
  urllist,         \* async_fetch's urllist, shuffled in place
  loaded,          \* the list as fetch_opml returned it
  opml_errors,     \* logger.error calls of the fetch_opml call that returned
  semaphore,       \* the semaphore's free slots
  tasks,           \* the fetch_rss tasks of the current round, in urllist order
  requested,       \* GET requests issued in the current round, per URL
  rounds           \* rounds started so far

\* The file watcher (commands/file_change_runner.py).
VARIABLES
  wpc,             \* watch: "off", "start", "watching", "stopped"
  debounce,        \* --debounce
  run_on_start,    \* --run-on-start
  target_is_dir,   \* target.is_dir()
  clock,           \* time.time()
  last_trigger_at, \* the recorded time of the latest trigger
  execs,           \* the latest two executions of run_cmd
  batch            \* how the latest batch of changes was handled

pollerVars == <<doc, max_concurrent, loop, pc, exc, urllist, loaded,
                opml_errors, semaphore, tasks, requested, rounds>>
watchVars == <<wpc, debounce, run_on_start, target_is_dir, clock,
               last_trigger_at, execs, batch>>
vars == <<pollerVars, watchVars>>

AllUrls == {UrlTable[g][c] : g \in DOMAIN UrlTable, c \in 1..5}
NoRequests == [u \in AllUrls |-> 0]

Task(url, st, resp, sleeps, logs, e) ==
  [url |-> url, st |-> st, resp |-> resp, sleeps |-> sleeps, logs |-> logs,
   exc |-> e]

Start(d, mc, lp) ==
  /\ doc = d /\ max_concurrent = mc /\ loop = lp
  /\ pc = "start" /\ exc = ""
  /\ urllist = <<>> /\ loaded = <<>> /\ opml_errors = 0
  /\ semaphore = 0 /\ tasks = <<>> /\ requested = NoRequests /\ rounds = 0

\* time.time() at start-up: far later than any debounce after time 0.
Epoch == MaxDebounce + 1
NoBatch == [related |-> FALSE, now |-> 0, before |-> 0, ran |-> FALSE]

\* The process runs `fetch`: the watcher does not exist.
WatcherOff ==
  /\ wpc = "off" /\ debounce = 0 /\ run_on_start = FALSE /\ target_is_dir = FALSE
  /\ clock = Epoch /\ last_trigger_at = 0 /\ execs = <<>> /\ batch = NoBatch

Init ==
  /\ \E d \in DriverDocs, mc \in 1..MaxCap, lp \in BOOLEAN : Start(d, mc, lp)
  /\ WatcherOff

\* The Loader alone, over every bounded subscription list.
LoaderInit == (\E d \in Docs : Start(d, MaxCap, FALSE)) /\ WatcherOff

(* ---------------------------- async_fetch ------------------------------ *)
\* urllist = fetch_opml(opml_path.expanduser())
LoadOpml ==
  /\ pc = "start"
  /\ LET r == fetch_opml(doc) IN
     IF r.ok
       THEN /\ urllist' = r.val.urllist
            /\ loaded' = r.val.urllist
            /\ opml_errors' = r.val.errors
            /\ pc' = "loop"
            /\ exc' = exc
       ELSE /\ pc' = "raised"
            /\ exc' = r.exc
            /\ UNCHANGED <<urllist, loaded, opml_errors>>
  /\ UNCHANGED <<watchVars, doc, max_concurrent, loop, semaphore, tasks, requested, rounds>>

\* Variant: the round's list is drawn with replacement (random.choices).
Resamples(s) ==
  {[i \in 1..Len(s) |-> s[f[i]]] : f \in [1..Len(s) -> 1..Len(s)]}

\* random.shuffle(urllist): any reordering of the same entries.
Shuffles(s) ==
  {[i \in 1..Len(s) |-> s[f[i]]] : f \in Permutations(1..Len(s))}

\* Variant: the round's task list is padded with a fetch of an empty URL.
TasksOfPadded(s) ==
  [i \in 1..(Len(s) + 1) |->
     Task(IF i <= Len(s) THEN s[i] ELSE "", "waiting", NoResp, <<>>, <<>>, "")]

\* tasks = [fetch_rss(client, url, semaphore) for url in urllist]
TasksOf(s) ==
  [i \in 1..Len(s) |-> Task(s[i], "waiting", NoResp, <<>>, <<>>, "")]

\* The top of `while True` up to the gather of fetch_all_rss: shuffle, a new
\* Semaphore(max_concurrent), one fetch_rss task per entry of urllist.
StartRound ==
  /\ pc = "loop"
  /\ rounds < MaxRounds
  /\ \E s \in Shuffles(urllist) :
       /\ urllist' = s
       /\ tasks' = TasksOf(s)
  /\ semaphore' = max_concurrent
  /\ requested' = NoRequests
  /\ rounds' = rounds + 1
  /\ pc' = "gather"
  /\ UNCHANGED <<watchVars, doc, max_concurrent, loop, exc, loaded, opml_errors>>

\* Variant: one slot is always kept in reserve.
CanAcquireSpare(value) == value > 1

\* Variant: the slot count is tested after the decrement instead of before.
CanAcquireNonNegative(value) == value >= 0

\* Semaphore.acquire proceeds only while a slot is free.
CanAcquire(value) == value > 0

\* async with semaphore: ... client.get(url, ...) is issued.
Acquire(i) ==
  /\ pc = "gather"
  /\ tasks[i].st = "waiting"
  /\ CanAcquire(semaphore)
  /\ semaphore' = semaphore - 1
  /\ tasks' = [tasks EXCEPT ![i].st = "request"]
  /\ requested' = [requested EXCEPT ![tasks[i].url] = @ + 1]
  /\ UNCHANGED <<watchVars, doc, max_concurrent, loop, pc, exc, urllist, loaded,
                 opml_errors, rounds>>

\* Variant: the cooldown sleep is awaited outside `async with semaphore`,
\* so the slot is given back as soon as the response is classified.
RespondThenRelease(i, resp) ==
  /\ pc = "gather"
  /\ tasks[i].st = "request"
  /\ LET o == fetch_rss(resp, wait_time) IN
     tasks' = [tasks EXCEPT ![i] =
                 Task(@.url, IF o.exc = "" THEN "sleep" ELSE "raised",
                      IF o.exc = "" THEN resp ELSE NoResp, o.sleeps, o.logs, o.exc)]
  /\ semaphore' = semaphore + 1
  /\ UNCHANGED <<watchVars, doc, max_concurrent, loop, pc, exc, urllist, loaded,
                 opml_errors, requested, rounds>>

\* client.get completes with resp; the task classifies it and starts its
\* cooldown sleep, or an exception leaves fetch_rss and frees the slot.
Respond(i, resp) ==
  /\ pc = "gather"
  /\ tasks[i].st = "request"
  /\ LET o == fetch_rss(resp, wait_time) IN
     IF o.exc = ""
       THEN /\ tasks' = [tasks EXCEPT ![i] =
                           Task(@.url, "sleep", resp, o.sleeps, o.logs, "")]
            /\ semaphore' = semaphore
       ELSE /\ tasks' = [tasks EXCEPT ![i] =
                           Task(@.url, "raised", NoResp, o.sleeps, o.logs, o.exc)]
            /\ semaphore' = semaphore + 1
  /\ UNCHANGED <<watchVars, doc, max_concurrent, loop, pc, exc, urllist, loaded,
                 opml_errors, requested, rounds>>

\* The cooldown sleep ends, fetch_rss returns and leaves `async with`.
WakeUp(i) ==
  /\ pc = "gather"
  /\ tasks[i].st = "sleep"
  /\ tasks' = [tasks EXCEPT ![i].st = "done", ![i].resp = NoResp]
  /\ semaphore' = semaphore + 1
  /\ UNCHANGED <<watchVars, doc, max_concurrent, loop, pc, exc, urllist, loaded,
                 opml_errors, requested, rounds>>

\* Variant: the wait ends with the first task that finishes.
GatheredFirst(ts) == \E i \in DOMAIN ts : ts[i].st \in {"done", "raised"}

\* asyncio.gather(*tasks) returns once every task has returned, and raises
\* as soon as one task has raised.
Gathered(ts) ==
  \/ \A i \in DOMAIN ts : ts[i].st = "done"
  \/ \E i \in DOMAIN ts : ts[i].st = "raised"

\* if not loop: break
Break(lp) == ~lp

\* The gather completes: the round is over, async_fetch loops or returns.
EndRound ==
  /\ pc = "gather"
  /\ Gathered(tasks)
  /\ IF \E i \in DOMAIN tasks : tasks[i].st = "raised"
       THEN /\ pc' = "raised"
            /\ \E i \in DOMAIN tasks :
                 tasks[i].st = "raised" /\ exc' = tasks[i].exc
       ELSE /\ pc' = IF Break(loop) THEN "returned" ELSE "loop"
            /\ exc' = exc
  /\ UNCHANGED <<watchVars, doc, max_concurrent, loop, urllist, loaded, opml_errors,
                 semaphore, tasks, requested, rounds>>

Next ==
  \/ LoadOpml
  \/ StartRound
  \/ \E i \in DOMAIN tasks : Acquire(i)
  \/ \E i \in DOMAIN tasks, resp \in Responses : Respond(i, resp)
  \/ \E i \in DOMAIN tasks : WakeUp(i)
  \/ EndRound

Spec == Init /\ [][Next]_vars

LoaderNext == LoadOpml

LoaderSpec == LoaderInit /\ [][LoaderNext]_vars

TypeOK ==
  /\ pc \in {"start", "loop", "gather", "returned", "raised"}
  /\ semaphore \in 0..MaxCap
  /\ rounds \in 0..MaxRounds
  /\ \A i \in DOMAIN tasks : tasks[i].st \in {"waiting", "request", "sleep", "done"}

(* ------------------------ claims: the fetcher -------------------------- *)
InFlight == {i \in DOMAIN tasks : tasks[i].st \in {"request", "sleep"}}
Waiting == {i \in DOMAIN tasks : tasks[i].st = "waiting"}
RoundOver == rounds > 0 /\ pc \in {"loop", "returned"}

\* C1: in every reachable state of a round the number of fetch_rss tasks
\* that have issued their GET request and have not yet finished is at most
\* the concurrency cap, whatever the interleaving and also when the cap is
\* smaller than the number of URLs.
C1_InFlightAtMostCap == Cardinality(InFlight) <= max_concurrent

\* C1 witness: more URLs than slots, every slot taken, a task held back.
C1_CapReached ==
  /\ Len(tasks) > max_concurrent
  /\ Cardinality(InFlight) = max_concurrent
  /\ Waiting # {}

\* C2: whatever a fetch's outcome, no exception leaves fetch_rss, the round
\* is not aborted (async_fetch does not raise once a round has started), and
\* when the round is over every fetch of it has run to completion.
C2_ErrorsIsolated ==
  /\ \A i \in DOMAIN tasks : tasks[i].st # "raised" /\ tasks[i].exc = ""
  /\ rounds > 0 => pc # "raised"
  /\ RoundOver => \A i \in DOMAIN tasks : tasks[i].st = "done"

\* C2 witness: a round that is over in which one fetch took the error
\* outcome and a sibling the success outcome.
C2_FailedBesideSucceeded ==
  /\ RoundOver
  /\ \E i, j \in DOMAIN tasks :
       /\ tasks[i].st = "done" /\ tasks[i].logs = <<"error">>
       /\ tasks[j].st = "done" /\ tasks[j].logs = <<"info">>

Count(s, u) == Cardinality({i \in DOMAIN s : s[i] = u})
IsPermutation(s, t) ==
  /\ Len(s) = Len(t)
  /\ \A u \in AllUrls : Count(s, u) = Count(t, u)

\* C3: in every round each entry of the Loader's list is requested exactly
\* once: the shuffled list and the round's tasks hold the Loader's entries,
\* each as often as the Loader returned it, no URL is requested more often
\* than that during the round, and exactly that often once the round is over.
C3_EachUrlOncePerRound ==
  /\ IsPermutation(urllist, loaded)
  /\ rounds > 0 => IsPermutation([i \in DOMAIN tasks |-> tasks[i].url], loaded)
  /\ \A u \in AllUrls : requested[u] <= Count(loaded, u)
  /\ RoundOver => \A u \in AllUrls : requested[u] = Count(loaded, u)

\* C3 witness: a second round is over, its order differs from the Loader's,
\* one of its fetches failed, and every URL was requested once in it.
C3_SecondRoundReshuffled ==
  /\ rounds = 2 /\ pc = "loop"
  /\ urllist # loaded
  /\ \E i \in DOMAIN tasks : tasks[i].logs = <<"error">>
  /\ \A i \in DOMAIN loaded : requested[loaded[i]] = 1

\* The cooldown C4 names for a response, in seconds (0: not fixed by C4).
CooldownOf(resp) ==
  IF resp.exc # "" THEN 9
  ELSE IF resp.status \in {502, 530} THEN 6
  ELSE IF resp.status \in {401, 403} THEN 6
  ELSE IF resp.status < 200 \/ resp.status > 299 THEN 9
  ELSE IF resp.body = "html" THEN 9
  ELSE 0

\* C4: each fetch_rss call performs exactly one cooldown sleep, and its
\* length is 6 s after 502/530, 6 s after 401/403, 9 s after another
\* non-2xx status, 9 s after a 2xx body that is not JSON and 9 s after an
\* exception of the request (base wait 3 s in every fetch of a round).
C4_OneCooldownByClass ==
  \A i \in DOMAIN tasks :
    /\ tasks[i].st \in {"sleep", "done"} => Len(tasks[i].sleeps) = 1
    /\ tasks[i].st \in {"waiting", "request"} => tasks[i].sleeps = <<>>
    /\ (tasks[i].st = "sleep" /\ CooldownOf(tasks[i].resp) # 0)
         => tasks[i].sleeps = <<CooldownOf(tasks[i].resp)>>

\* C4 witness: one task cooling down 6 s after a 530, another 9 s after a
\* 2xx body that is not JSON.
C4_TwoCooldowns ==
  \E i, j \in DOMAIN tasks :
    /\ tasks[i].st = "sleep" /\ tasks[i].resp.status = 530
    /\ tasks[i].sleeps = <<6>>
    /\ tasks[j].st = "sleep" /\ tasks[j].resp = Reply(200, "html")
    /\ tasks[j].sleeps = <<9>>

ValidJson(body) == body \in {"full", "notitle", "nohome", "list"}
Is2xx(resp) == resp.exc = "" /\ resp.status >= 200 /\ resp.status <= 299

\* C5 as stated: whenever the response has a 2xx status and a body that is
\* valid JSON, fetch_rss takes the success outcome (info) and sleeps 3 s.
C5_ValidJsonAlwaysSucceeds ==
  \A i \in DOMAIN tasks :
    (tasks[i].st = "sleep" /\ Is2xx(tasks[i].resp) /\ ValidJson(tasks[i].resp.body))
      => tasks[i].sleeps = <<3>> /\ tasks[i].logs = <<"info">>

\* C5 amended: a 2xx response whose body is a JSON object holding both
\* title and home_page_url takes the success outcome (info) and sleeps 3 s;
\* a 2xx response whose body is valid JSON without one of the two fields
\* takes the error outcome and sleeps 9 s.
C5_FeedJsonSucceeds ==
  \A i \in DOMAIN tasks :
    (tasks[i].st = "sleep" /\ Is2xx(tasks[i].resp)) =>
      /\ tasks[i].resp.body = "full"
           => tasks[i].sleeps = <<3>> /\ tasks[i].logs = <<"info">>
      /\ tasks[i].resp.body \in {"notitle", "nohome", "list"}
           => tasks[i].sleeps = <<9>> /\ tasks[i].logs = <<"error">>

\* C5 witness: a 201 with a complete feed cooling down 3 s beside a 200
\* whose JSON lacks home_page_url cooling down 9 s.
C5_FullBesideIncomplete ==
  \E i, j \in DOMAIN tasks :
    /\ tasks[i].st = "sleep" /\ tasks[i].resp = Reply(201, "full")
    /\ tasks[i].sleeps = <<3>>
    /\ tasks[j].st = "sleep" /\ tasks[j].resp = Reply(200, "nohome")
    /\ tasks[j].sleeps = <<9>>

\* C6: rounds run strictly one after another: a round starts only when
\* every fetch of the round before it is done; a gather that ends leads to
\* the top of the loop when looping and to the return otherwise; without
\* loop exactly one round is run before async_fetch returns; with loop
\* async_fetch never returns.
C6_RoundsInSequence ==
  [][/\ rounds' # rounds =>
          /\ rounds' = rounds + 1
          /\ \A i \in DOMAIN tasks : tasks[i].st = "done"
     /\ (pc = "gather" /\ pc' # "gather") =>
          /\ \A i \in DOMAIN tasks : tasks[i].st = "done"
          /\ pc' = IF loop THEN "loop" ELSE "returned"
     /\ pc' = "returned" => ~loop /\ rounds' = 1
     /\ ~loop => rounds' <= 1]_vars

\* C6 witness: a looping run whose second round is under way.
C6_SecondRoundRunning ==
  /\ loop /\ rounds = 2 /\ pc = "gather"
  /\ \E i \in DOMAIN tasks : tasks[i].st = "request"

\* C10: a failure of the Loader leaves async_fetch before any round: in a
\* run that has raised no round was started, no task created and no GET
\* issued, and the exception is the Loader's; once the Loader has returned,
\* async_fetch raises nothing, whatever the fetches' outcomes.
C10_OnlyLoaderFails ==
  /\ pc = "raised" =>
       /\ rounds = 0 /\ tasks = <<>> /\ requested = NoRequests
       /\ ~fetch_opml(doc).ok /\ exc = fetch_opml(doc).exc
  /\ pc # "raised" => exc = ""
  /\ pc \notin {"start", "raised"} => fetch_opml(doc).ok

\* C10 witness: the run has failed on a list without <body>, no GET issued.
C10_LoaderFailed ==
  /\ pc = "raised" /\ doc = NoBodyDoc /\ exc = "ValueError"
  /\ requested = NoRequests

(* ------------------------- claims: the Loader -------------------------- *)
\* The subscription list as written in the file, read off the XML itself.
HasKid(e, tag) == \E i \in DOMAIN e.kids : e.kids[i].tag = tag
KidOf(e, tag) == e.kids[CHOOSE i \in DOMAIN e.kids : e.kids[i].tag = tag]
HasOutlineRoot(d) ==
  d.tag = "opml" /\ HasKid(d, "body") /\ HasKid(KidOf(d, "body"), "outline")
GroupsOf(d) == IF HasOutlineRoot(d) THEN KidOf(d, "body").kids ELSE <<>>
HasUrl(e) == \E p \in e.attrs : p[1] = "xmlUrl"
UrlOf(e) == (CHOOSE p \in e.attrs : p[1] = "xmlUrl")[2]
\* A group holding one child or several, each a feed entry.
IsFeedGroup(g) ==
  /\ g.kids # <<>>
  /\ \A c \in DOMAIN g.kids : HasUrl(g.kids[c]) /\ g.kids[c].kids = <<>>
\* A group that is neither: no child at all (an empty group, a leaf entry
\* directly under <body>), or a lone child that is not a structure.
IsOddGroup(g) ==
  \/ g.kids = <<>>
  \/ Len(g.kids) = 1 /\ g.kids[1].attrs = {} /\ g.kids[1].kids = <<>>

RECURSIVE FeedUrls(_)
FeedUrls(groups) ==
  IF groups = <<>> THEN <<>>
  ELSE (IF IsFeedGroup(groups[1])
          THEN [c \in DOMAIN groups[1].kids |-> UrlOf(groups[1].kids[c])]
          ELSE <<>>)
       \o FeedUrls(Tail(groups))

Loaded == pc = "loop"
LoaderDone == pc # "start"

C8_MissingRootIsFormatError ==
  (LoaderDone /\ ~HasOutlineRoot(doc)) => pc = "raised" /\ exc = "ValueError"

\* C9: a group that is neither a list of children nor a single child
\* structure is skipped with the anomaly logged and is not fatal: in a list
\* of two or more groups, each a feed group or such an odd group, fetch_opml
\* returns the URLs of the feed groups, in order, and logs once per odd group.
C9_OddGroupSkipped ==
  (/\ LoaderDone
   /\ Len(GroupsOf(doc)) >= 2
   /\ \A g \in DOMAIN GroupsOf(doc) :
        IsFeedGroup(GroupsOf(doc)[g]) \/ IsOddGroup(GroupsOf(doc)[g]))
  => /\ Loaded
     /\ loaded = FeedUrls(GroupsOf(doc))
     /\ opml_errors =
          Cardinality({g \in DOMAIN GroupsOf(doc) : IsOddGroup(GroupsOf(doc)[g])})

(* ------------------- claims: slots, empty round, progress -------------- *)
\* C11: a round over an empty URL list creates no task, so nothing waits on
\* a slot or a sleep and no GET is issued: while the round's gather is
\* pending it can complete at once, every slot is free and no request has
\* been made, for every cap.
C11_EmptyRoundImmediate ==
  (rounds > 0 /\ loaded = <<>>) =>
     /\ tasks = <<>>
     /\ requested = NoRequests
     /\ semaphore = max_concurrent
     /\ pc = "gather" => ENABLED EndRound

\* C11 witness: a run over an empty list has returned after its one round.
C11_EmptyRoundReturned ==
  /\ pc = "returned" /\ rounds = 1
  /\ loaded = <<>> /\ tasks = <<>> /\ requested = NoRequests

\* C13: a task holds its slot from before its GET until its cooldown sleep
\* has ended: in every state of a round free slots plus tasks in request or
\* cooldown equal the cap, a waiting task cannot be admitted while cap tasks
\* are in request or cooldown, and when the round is over all slots are free.
C13_SlotHeldThroughCooldown ==
  rounds > 0 =>
     /\ semaphore + Cardinality(InFlight) = max_concurrent
     /\ Cardinality(InFlight) = max_concurrent
          => \A i \in Waiting : ~ENABLED Acquire(i)
     /\ RoundOver => semaphore = max_concurrent

\* C13 witness: every slot is held, one of them by a task cooling down
\* after an error, while another task waits for a slot.
C13_CoolingTaskBlocksWaiter ==
  /\ semaphore = 0 /\ Waiting # {}
  /\ \E i \in DOMAIN tasks :
       tasks[i].st = "sleep" /\ tasks[i].logs = <<"error">>

\* The event loop runs a task that can run: while some fetch can be
\* admitted one is, while some GET is pending one returns or fails (60 s
\* timeout), while some task sleeps one sleep ends, and the gather returns
\* once it can.
Fairness ==
  /\ WF_vars(EndRound)
  /\ WF_vars(\E i \in DOMAIN tasks : Acquire(i))
  /\ WF_vars(\E i \in DOMAIN tasks, resp \in Responses : Respond(i, resp))
  /\ WF_vars(\E i \in DOMAIN tasks : WakeUp(i))

\* One round (no --loop) over a well-formed list of 0..MaxUrls feeds.
FairInit ==
  /\ \E n \in 0..MaxUrls, mc \in 1..MaxCap : Start(FeedDoc(n), mc, FALSE)
  /\ WatcherOff

FairSpec == FairInit /\ [][Next]_vars /\ Fairness

\* C14: under fair scheduling, with every GET returning or failing and
\* every sleep ending, each fetch suspended at the admission gate is
\* eventually admitted (whenever fetches wait at the gate, a state follows
\* in which none of them waits any more) and each round eventually completes.
C14_AdmittedAndRoundCompletes ==
  /\ (Waiting # {}) ~> (Waiting = {})
  /\ (pc = "gather") ~> (pc \in {"loop", "returned"})

\* C14 witness: a round with more fetches than slots is over, so the fetch
\* that had to wait at the gate was admitted and finished.
C14_WaiterServed ==
  /\ RoundOver
  /\ Len(tasks) > max_concurrent
  /\ \A i \in DOMAIN tasks : tasks[i].st = "done"

(* ------------------------- the file watcher ---------------------------- *)
\* The process runs `watch`: the poller does not exist. last_trigger_at = 0.0
PollerOff == Start(NoBodyDoc, 1, FALSE) /\ pc = "start"

WatchInit ==
  /\ PollerOff
  /\ wpc = "start"
  /\ debounce \in 0..MaxDebounce
  /\ run_on_start \in BOOLEAN
  /\ target_is_dir \in BOOLEAN
  /\ clock = Epoch
  /\ last_trigger_at = 0
  /\ execs = <<>>
  /\ batch = NoBatch

\* One execution of run_cmd: the time it was triggered at and the time
\* recorded for it in last_trigger_at. Only the latest two are kept.
Executed(at, recorded) ==
  IF Len(execs) < 2 THEN Append(execs, [at |-> at, recorded |-> recorded])
  ELSE <<execs[2], [at |-> at, recorded |-> recorded]>>

\* if run_on_start: subprocess.run(run_cmd, ...); last_trigger_at = time.time()
\* The command takes d ticks; the time recorded is the time it ended.
Startup(d) ==
  /\ wpc = "start"
  /\ wpc' = "watching"
  /\ IF run_on_start
       THEN /\ clock' = clock + d
            /\ last_trigger_at' = clock + d
            /\ execs' = Executed(clock, clock + d)
       ELSE /\ d = 0
            /\ UNCHANGED <<clock, last_trigger_at, execs>>
  /\ UNCHANGED <<pollerVars, debounce, run_on_start, target_is_dir, batch>>

\* Time passes while watch_changes waits for the next batch.
Tick ==
  /\ wpc = "watching"
  /\ clock < Epoch + MaxTime
  /\ clock' = clock + 1
  /\ UNCHANGED <<pollerVars, wpc, debounce, run_on_start, target_is_dir,
                 last_trigger_at, execs, batch>>

\* The paths a batch can name: the target, and another file beside it (or,
\* when the target is a directory, inside it).
Paths == {"target", "other"}

\* related_changes: every change under a directory target, the changes of
\* the target itself otherwise.
Related(changes) ==
  IF target_is_dir THEN changes ELSE {p \in changes : p = "target"}

\* Variant: the comparison is made against one tick less than debounce.
TooSoonShort(now, last, d) == now - last < d - 1

\* if now - last_trigger_at < debounce: continue
TooSoon(now, last, d) == now - last < d

\* One iteration of `for changes in watch_changes(...)`: the batch is
\* skipped when empty or unrelated, dropped when it comes too soon after the
\* recorded trigger, and otherwise run_cmd is executed (taking d ticks) and
\* the time read before the execution is recorded.
OnChanges(changes, d) ==
  /\ wpc = "watching"
  /\ clock + d <= Epoch + MaxTime
  /\ IF changes = {} \/ Related(changes) = {}
       THEN /\ d = 0
            /\ batch' = [related |-> FALSE, now |-> clock,
                         before |-> last_trigger_at, ran |-> FALSE]
            /\ UNCHANGED <<clock, last_trigger_at, execs>>
       ELSE IF TooSoon(clock, last_trigger_at, debounce)
         THEN /\ d = 0
              /\ batch' = [related |-> TRUE, now |-> clock,
                           before |-> last_trigger_at, ran |-> FALSE]
              /\ UNCHANGED <<clock, last_trigger_at, execs>>
         ELSE /\ batch' = [related |-> TRUE, now |-> clock,
                           before |-> last_trigger_at, ran |-> TRUE]
              /\ clock' = clock + d
              /\ last_trigger_at' = clock
              /\ execs' = Executed(clock, clock)
  /\ UNCHANGED <<pollerVars, wpc, debounce, run_on_start, target_is_dir>>

\* except KeyboardInterrupt: the watch stops.
Interrupt ==
  /\ wpc = "watching"
  /\ wpc' = "stopped"
  /\ UNCHANGED <<pollerVars, debounce, run_on_start, target_is_dir, clock,
                 last_trigger_at, execs, batch>>

WatchNext ==
  \/ \E d \in 0..MaxCmd : Startup(d)
  \/ Tick
  \/ \E changes \in SUBSET Paths, d \in 0..MaxCmd : OnChanges(changes, d)
  \/ Interrupt

WatchSpec == WatchInit /\ [][WatchNext]_vars

\* C12: debounce is the minimum interval between two triggers: of any two
\* consecutive executions of run_cmd (the run-on-start one included) the
\* later is triggered at least debounce after the time recorded for the
\* earlier; a related batch arriving sooner than debounce after the
\* recorded trigger is dropped, run_cmd is not executed and last_trigger_at
\* keeps its value; a batch that triggers records its own time.
C12_DebounceIsMinimumInterval ==
  /\ Len(execs) = 2 => execs[2].at >= execs[1].recorded + debounce
  /\ execs # <<>> => last_trigger_at = execs[Len(execs)].recorded
  /\ execs = <<>> => last_trigger_at = 0
  /\ (batch.related /\ batch.now - batch.before < debounce)
       => ~batch.ran /\ last_trigger_at = batch.before
  /\ batch.ran => batch.now >= batch.before + debounce

\* C12 witness: after the run-on-start execution a change triggered exactly
\* debounce after the recorded time, and the next related batch was dropped.
C12_TriggeredThenDropped ==
  /\ run_on_start /\ debounce > 0
  /\ Len(execs) = 2
  /\ execs[2].at = execs[1].recorded + debounce
  /\ batch.related /\ ~batch.ran
  /\ batch.now > execs[2].at

====
